---- MODULE Spec2Model ----
(***************************************************************************)
(* The GM agent session of arboris-novel: the WebSocket composable         *)
(* useGMWebSocket (second, refactored definition in the file, lines        *)
(* 582-1282) and the panel of AuthorNotesSection.vue that drives it.       *)
(*                                                                         *)
(* Conventions of the model                                                *)
(*  - a ToolExecution is a record; id 0 stands for an identifier that no   *)
(*    frame or call ever carries (a locally generated call_/exec_ id, or   *)
(*    a reconstructed entry without id); message 0 and preview 0 stand     *)
(*    for undefined;                                                       *)
(*  - JavaScript object sharing is kept: the objects confirm_actions puts  *)
(*    into pendingConfirm.tools are the same objects it puts into          *)
(*    currentRoundTools. Field alias of a live entry is the index of the   *)
(*    pendingConfirm entry that is the same object (0: not shared), and    *)
(*    every write to one is a write to the other;                          *)
(*  - msg.actions of a finalized Message is toolsCopy.filter(...): the     *)
(*    same objects as msg.tools (shared = TRUE). A Message loaded from     *)
(*    persisted records keeps its own actions list (shared = FALSE);       *)
(*  - streamed text is counted in chunks;                                  *)
(*  - last records the operation that ran last and what it put on the      *)
(*    wire (a frame, or an apply/discard request).                         *)
(***************************************************************************)
EXTENDS Integers, Sequences, FiniteSets, TLC

\* ---------------------------------------------------------------- bounds
MaxId == 2          \* identifiers the server hands out: 1..MaxId
MaxTools == 2       \* entries of currentRoundTools
MaxContent == 1     \* content chunks of one Round
MaxMessages == 2    \* Messages of the history
MaxSockets == 2     \* WebSocket objects alive at one time
MaxLoose == 1       \* pending timers that no handle references
MaxGmMessages == 4  \* Messages of the GMAgentPanel's history

Ids == 1..MaxId

VARIABLES
    ws,                 \* the socket the manager references (0: null)
    sock,               \* readyState of every socket created so far
    connectionStatus,
    lastError,
    reconnectAttempts,
    reconnectTimer,     \* "null" | "live" | "fired": the handle and its timer
    reconnectDelay,     \* the delay (ms) given to the last setTimeout of scheduleReconnect
    looseTimers,        \* live timers calling connect that no handle references
    conversationId,
    messages,
    isLoading,
    streamingContent,
    currentRoundTools,
    pendingConfirm,
    executionStats,
    rest,               \* the apply/discard request in flight (isApplying) and, in
                        \* keep, the keepCount of the truncate request in flight
                        \* (isReverting; 0: none)
    srvTurn,            \* socket on which the server is running a turn (0: none)
    submitted,          \* per id, how it was last submitted since a confirm_actions
                        \* frame proposed it: "inband_approved", "inband_rejected"
                        \* (lists of a confirm_response), "outband" (apply),
                        \* "discarded" (discard)
    last

connVars == <<ws, sock, connectionStatus, lastError, reconnectAttempts, reconnectTimer,
              reconnectDelay, looseTimers>>
sessVars == <<conversationId, messages, isLoading, streamingContent, currentRoundTools,
              pendingConfirm, executionStats>>
vars == <<ws, sock, connectionStatus, lastError, reconnectAttempts, reconnectTimer,
          reconnectDelay, looseTimers, conversationId, messages, isLoading, streamingContent,
          currentRoundTools, pendingConfirm, executionStats, rest, srvTurn,
          submitted, last>>

\* ------------------------------------------------------------- sequences
\* Array.prototype.find over the indices that match: the first one, 0 when
\* nothing matches
FirstIdx(matching) ==
    IF matching = {} THEN 0
    ELSE CHOOSE i \in matching : \A j \in matching : i <= j

\* the indices of the entries with this id
WithId(list, id) == { k \in DOMAIN list : list[k].id = id }

SeqToSet(s) == { s[i] : i \in DOMAIN s }

IdsOf(list) == [i \in DOMAIN list |-> list[i].id]

\* ------------------------------------------------------------- the types
Terminal == {"applied", "success", "failed"}
Decided == {"approved", "rejected"} \cup Terminal

NewTool(id, name, params, status, rc, preview) ==
    [id |-> id, tool_name |-> name, params |-> params, status |-> status,
     requires_confirmation |-> rc, preview |-> preview, message |-> 0, alias |-> 0]

NoConfirm == [active |-> FALSE, tools |-> <<>>, awaitingConfirmation |-> FALSE]

NoRest == [phase |-> "idle", approved |-> <<>>, rejected |-> <<>>, origin |-> "none",
           keep |-> 0]

NewMessage(role, content, tools) ==
    [role |-> role, content |-> content, tools |-> tools, shared |-> TRUE, actions |-> <<>>]

\* ids leave on a pathway
Mark(ids, path) == [i \in Ids |-> IF i \in ids THEN path ELSE submitted[i]]
MarkInBand(a, r) == [i \in Ids |-> IF i \in a THEN "inband_approved"
                                   ELSE IF i \in r THEN "inband_rejected"
                                   ELSE submitted[i]]
InBand == {"inband_approved", "inband_rejected"}
OutBand == {"outband", "discarded"}

Op(name) == [op |-> name, sent |-> "none", a |-> <<>>, r |-> <<>>, ok |-> TRUE]
OpSent(name, frame, a, r, ok) == [op |-> name, sent |-> frame, a |-> a, r |-> r, ok |-> ok]

\* the reactive state of the session, passed to and returned by the
\* composable's functions; the ledger is its fields tools, pc and msgs
Sess == [tools |-> currentRoundTools, pc |-> pendingConfirm, msgs |-> messages,
         content |-> streamingContent, loading |-> isLoading,
         stats |-> executionStats, conv |-> conversationId]

SetSess(S) ==
    /\ currentRoundTools' = S.tools
    /\ pendingConfirm' = S.pc
    /\ messages' = S.msgs
    /\ streamingContent' = S.content
    /\ isLoading' = S.loading
    /\ executionStats' = S.stats
    /\ conversationId' = S.conv

\* msg.actions as the template and updateToolStatus read it
MsgActions(m) == IF m.shared THEN SelectSeq(m.tools, LAMBDA t : t.requires_confirmation)
                 ELSE m.actions

Unalias(tools) == [i \in DOMAIN tools |-> [tools[i] EXCEPT !.alias = 0]]

\* ------------------------------------------------------ the Tool Ledger
\* a write to a ToolExecution object: the fields it assigns ("keep", -1: the
\* field is left alone)
\* a write that takes the status back when the entry already has it
PatchFlip(t, w) ==
    [t EXCEPT !.status = IF w.status = "keep" THEN @
                         ELSE IF @ = w.status THEN "pending" ELSE w.status,
              !.message = IF w.message # -1 THEN w.message ELSE @,
              !.preview = IF w.preview # -1 THEN w.preview ELSE @]

Patch(t, w) ==
    [t EXCEPT !.status = IF w.status # "keep" THEN w.status ELSE @,
              !.message = IF w.message # -1 THEN w.message ELSE @,
              !.preview = IF w.preview # -1 THEN w.preview ELSE @]

\* tool.status = status; if (message !== undefined) tool.message = message
SetStatus(status, message) ==
    [status |-> status, message |-> IF message # 0 THEN message ELSE -1, preview |-> -1]

\* a write to the object at currentRoundTools[i]; it is seen through
\* pendingConfirm.tools too when the object is shared
WriteLive(L, i, w) ==
    LET k == L.tools[i].alias
    IN  [L EXCEPT !.tools[i] = Patch(@, w),
                  !.pc.tools = IF k > 0 THEN [@ EXCEPT ![k] = Patch(@, w)] ELSE @]

\* a write to the object at pendingConfirm.tools[j]; it is seen through
\* currentRoundTools too when the object is shared
WritePending(L, j, w) ==
    [L EXCEPT !.pc.tools[j] = Patch(@, w),
              !.tools = [i \in DOMAIN @ |-> IF @[i].alias = j THEN Patch(@[i], w) ELSE @[i]]]

\* the history loop of updateToolStatus, for one Message
UpdateMessage(m, toolId, w) ==
    LET i  == FirstIdx(WithId(m.tools, toolId))
        m1 == IF i > 0 THEN [m EXCEPT !.tools[i] = Patch(@, w)] ELSE m
    IN  IF m1.shared
        THEN LET k == FirstIdx({ n \in WithId(m1.tools, toolId) :
                                   m1.tools[n].requires_confirmation })
             IN  IF k > 0 THEN [m1 EXCEPT !.tools[k] = Patch(@, w)] ELSE m1
        ELSE LET k == FirstIdx(WithId(m1.actions, toolId))
             IN  IF k > 0 THEN [m1 EXCEPT !.actions[k] = Patch(@, w)] ELSE m1

\* updateToolStatus as it would be without its loop over the history
updateToolStatusLiveOnly(L, toolId, status, message) ==
    LET w  == SetStatus(status, message)
        i  == FirstIdx(WithId(L.tools, toolId))
        L1 == IF i > 0 THEN WriteLive(L, i, w) ELSE L
        j  == IF L1.pc.active THEN FirstIdx(WithId(L1.pc.tools, toolId)) ELSE 0
    IN  IF j > 0 THEN WritePending(L1, j, w) ELSE L1

\* updateToolStatus as it would be if it added an entry for an id the live
\* list does not hold
updateToolStatusCreating(L, toolId, status, message) ==
    LET w  == SetStatus(status, message)
        i  == FirstIdx(WithId(L.tools, toolId))
        L1 == IF i > 0 THEN WriteLive(L, i, w)
              ELSE [L EXCEPT !.tools = Append(@, NewTool(toolId, "t1", 1, status, TRUE, 0))]
        j  == IF L1.pc.active THEN FirstIdx(WithId(L1.pc.tools, toolId)) ELSE 0
        L2 == IF j > 0 THEN WritePending(L1, j, w) ELSE L1
    IN  [L2 EXCEPT !.msgs = [n \in DOMAIN @ |-> UpdateMessage(@[n], toolId, w)]]

updateToolStatus(L, toolId, status, message) ==
    LET w  == SetStatus(status, message)
        i  == FirstIdx(WithId(L.tools, toolId))
        L1 == IF i > 0 THEN WriteLive(L, i, w) ELSE L
        j  == IF L1.pc.active THEN FirstIdx(WithId(L1.pc.tools, toolId)) ELSE 0
        L2 == IF j > 0 THEN WritePending(L1, j, w) ELSE L1
    IN  [L2 EXCEPT !.msgs = [n \in DOMAIN @ |-> UpdateMessage(@[n], toolId, w)]]

RECURSIVE UpdateEach(_, _, _)
UpdateEach(L, ids, status) ==
    IF ids = <<>> THEN L
    ELSE UpdateEach(updateToolStatus(L, Head(ids), status, 0), Tail(ids), status)

updateToolStatuses(L, approvedIds, rejectedIds) ==
    UpdateEach(UpdateEach(L, approvedIds, "approved"), rejectedIds, "rejected")

\* the greatest of the indices that match, 0 when nothing matches
LastIdx(matching) ==
    IF matching = {} THEN 0
    ELSE CHOOSE i \in matching : \A j \in matching : i >= j

\* findTool as it would be if the name route took the latest executing entry
findToolLatest(tools, callId, toolName) ==
    IF callId # 0
    THEN FirstIdx(WithId(tools, callId))
    ELSE LastIdx({ k \in DOMAIN tools : /\ tools[k].tool_name = toolName
                                        /\ tools[k].status = "executing" })

findTool(tools, callId, toolName) ==
    IF callId # 0
    THEN FirstIdx(WithId(tools, callId))
    ELSE FirstIdx({ k \in DOMAIN tools : /\ tools[k].tool_name = toolName
                                         /\ tools[k].status = "executing" })

approveAction(L, actionId) == updateToolStatus(L, actionId, "approved", 0)
rejectAction(L, actionId) == updateToolStatus(L, actionId, "rejected", 0)
markActionsApplied(L, actionIds) == UpdateEach(L, actionIds, "applied")
markActionsFailed(L, actionIds) == UpdateEach(L, actionIds, "failed")

confirmAll(L) ==
    IF L.pc.active
    THEN updateToolStatuses(L, IdsOf(L.pc.tools), <<>>)
    ELSE L

rejectAll(L) ==
    IF L.pc.active
    THEN updateToolStatuses(L, <<>>, IdsOf(L.pc.tools))
    ELSE L

\* a close handler that leaves pendingConfirm as it is
DropConfirmKept(L) == L

\* pendingConfirm.value = null: the objects stay in currentRoundTools, unshared
DropConfirm(L) == [L EXCEPT !.pc = NoConfirm, !.tools = Unalias(@)]

\* FoldRound as it would be if it saved only the entries that have settled
FoldRoundSettledOnly(msgs, content, tools) ==
    IF content > 0 \/ Len(tools) > 0
    THEN Append(msgs, NewMessage("assistant", content,
                    Unalias(SelectSeq(tools, LAMBDA t : t.status \in Terminal \cup {"rejected"}))))
    ELSE msgs

\* the assistant Message that 'done' and sendConfirmResponse append: a deep
\* copy of the Round's tools, with the streamed text
FoldRound(msgs, content, tools) ==
    IF content > 0 \/ Len(tools) > 0
    THEN Append(msgs, NewMessage("assistant", content, Unalias(tools)))
    ELSE msgs

\* ------------------------------------------------- the Connection Manager
MAX_RECONNECT_ATTEMPTS == 5
RECONNECT_DELAY_BASE == 1000

\* Math.pow(2, n)
RECURSIVE Pow2(_)
Pow2(n) == IF n = 0 THEN 1 ELSE 2 * Pow2(n - 1)

\* the connection state the manager's functions read and write
Conn == [ws |-> ws, sock |-> sock, status |-> connectionStatus, lastError |-> lastError,
         attempts |-> reconnectAttempts, timer |-> reconnectTimer,
         delay |-> reconnectDelay, loose |-> looseTimers]

SetConn(C) ==
    /\ ws' = C.ws
    /\ sock' = C.sock
    /\ connectionStatus' = C.status
    /\ lastError' = C.lastError
    /\ reconnectAttempts' = C.attempts
    /\ reconnectTimer' = C.timer
    /\ reconnectDelay' = C.delay
    /\ looseTimers' = C.loose

IsOpen(C) == C.ws # 0 /\ C.sock[C.ws] = "open"

\* a closed WebSocket has no further events and nothing references it: the
\* model names the next object after it
Unused(C, n) == C.sock[n] \in {"none", "closed"}
FreeSocket(C) == \E n \in DOMAIN C.sock : Unused(C, n)
NewSocket(C) == CHOOSE n \in DOMAIN C.sock :
                    Unused(C, n) /\ \A k \in 1..(n-1) : ~Unused(C, k)

\* connect() creates a socket unless the referenced one is open
Creates(C) == ~IsOpen(C)

connect(C) ==
    IF IsOpen(C) THEN C
    ELSE [C EXCEPT !.timer = "null",
                   !.status = "connecting",
                   !.lastError = "null",
                   !.ws = NewSocket(C),
                   !.sock[NewSocket(C)] = "connecting"]

\* scheduleReconnect with a delay that grows by the base at every attempt
scheduleReconnectLinear(C) ==
    IF C.attempts >= MAX_RECONNECT_ATTEMPTS
    THEN [C EXCEPT !.lastError = "exhausted"]
    ELSE [C EXCEPT !.delay = RECONNECT_DELAY_BASE * (C.attempts + 1),
                   !.attempts = @ + 1,
                   !.timer = "live",
                   !.loose = IF C.timer = "live" THEN @ + 1 ELSE @]

scheduleReconnect(C) ==
    IF C.attempts >= MAX_RECONNECT_ATTEMPTS
    THEN [C EXCEPT !.lastError = "exhausted"]
    ELSE [C EXCEPT !.delay = RECONNECT_DELAY_BASE * Pow2(C.attempts),
                   !.attempts = @ + 1,
                   !.timer = "live",
                   !.loose = IF C.timer = "live" THEN @ + 1 ELSE @]

disconnect(C) ==
    [C EXCEPT !.sock = IF C.ws # 0 /\ C.sock[C.ws] \in {"connecting", "open"}
                       THEN [@ EXCEPT ![C.ws] = "closing"] ELSE @,
              !.ws = 0,
              !.status = "disconnected"]

\* ws.onopen
onopen(C, s) ==
    [C EXCEPT !.sock[s] = "open", !.status = "connected", !.attempts = 0]

\* ws.onerror, fired in the task that fires close when the connection failed
onerror(C) == [C EXCEPT !.status = "error", !.lastError = "connect_failed"]

\* ws.onclose, the connection part (it also drops pendingConfirm)
onclose(C, s, code) ==
    LET C1 == [C EXCEPT !.sock[s] = "closed", !.status = "disconnected", !.ws = 0]
    IN  IF code # 1000 /\ code # 1001 THEN scheduleReconnect(C1) ELSE C1

\* sendMessage: the frame leaves only on an open referenced socket
CanSend == IsOpen(Conn)

\* ------------------------------------------------ the Round Controller
sendUserMessage(S) ==
    [S EXCEPT !.msgs = Append(@, NewMessage("user", 1, <<>>)),
              !.loading = TRUE,
              !.content = 0,
              !.tools = <<>>,
              !.stats = FALSE]

Awaiting(S) == S.pc.active /\ S.pc.awaitingConfirmation

\* sendConfirmResponse as it would be without its guard
sendConfirmResponseUnguarded(S, approved, rejected) ==
    LET S1 == updateToolStatuses(S, approved, rejected)
    IN  [S1 EXCEPT !.msgs = FoldRound(S1.msgs, S1.content, S1.tools),
                   !.content = 0,
                   !.tools = <<>>,
                   !.pc = NoConfirm,
                   !.loading = TRUE]

sendConfirmResponse(S, approved, rejected) ==
    IF ~Awaiting(S) THEN S
    ELSE LET S1 == updateToolStatuses(S, approved, rejected)
         IN  [S1 EXCEPT !.msgs = FoldRound(S1.msgs, S1.content, S1.tools),
                        !.content = 0,
                        !.tools = <<>>,
                        !.pc = NoConfirm,
                        !.loading = TRUE]

\* cancelTask as it would be if it reset the Round as a submit does
cancelTaskResetting(S) ==
    [S EXCEPT !.loading = FALSE, !.pc = NoConfirm, !.tools = <<>>, !.content = 0]

\* sendMessage({ type: 'cancel' }) is the frame of the action CancelTask
cancelTask(S) == [S EXCEPT !.loading = FALSE, !.pc = NoConfirm, !.tools = Unalias(@)]

\* the loop of the confirm_actions handler from its k-th action on
RECURSIVE ConfirmLoop(_, _, _)
ConfirmLoop(tools, raw, k) ==
    IF k > Len(raw) THEN tools
    ELSE LET a  == raw[k]
             existingIndex == FirstIdx({ n \in DOMAIN tools :
                                           /\ tools[n].tool_name = a.tool_name
                                           /\ tools[n].params = a.params
                                           /\ ~tools[n].requires_confirmation })
             toolExecution == [NewTool(a.action_id, a.tool_name, a.params, "pending", TRUE, 1)
                                  EXCEPT !.alias = k]
         IN  ConfirmLoop(IF existingIndex > 0
                         THEN [tools EXCEPT ![existingIndex] = toolExecution]
                         ELSE Append(tools, toolExecution),
                         raw, k + 1)

ConfirmTools(raw) ==
    [k \in DOMAIN raw |->
        NewTool(raw[k].action_id, raw[k].tool_name, raw[k].params, "pending", TRUE, 1)]

\* handleMessage, one operator per frame type
handleContent(S) == [S EXCEPT !.content = @ + 1]

handleToolCall(S, toolName, params, callId) ==
    [S EXCEPT !.tools = Append(@, NewTool(callId, toolName, params, "executing", FALSE, 0))]

handleToolExecuting(S, toolName, params, preview, callId) ==
    LET existing == findTool(S.tools, callId, toolName)
    IN  IF existing > 0
        THEN WriteLive(S, existing, [status |-> "keep", message |-> -1, preview |-> preview])
        ELSE [S EXCEPT !.tools =
                 Append(@, NewTool(callId, toolName, params, "executing", FALSE, preview))]

handleToolResult(S, toolName, callId, success, message) ==
    LET tool == findTool(S.tools, callId, toolName)
    IN  IF tool > 0
        THEN WriteLive(S, tool, [status |-> IF success THEN "applied" ELSE "failed",
                                 message |-> message, preview |-> -1])
        ELSE S

handleConfirmActions(S, rawActions, awaitingConfirmation) ==
    [S EXCEPT !.tools = ConfirmLoop(Unalias(S.tools), rawActions, 1),
              !.pc = [active |-> TRUE, tools |-> ConfirmTools(rawActions),
                      awaitingConfirmation |-> awaitingConfirmation]]

handleToolExecuted(S, actionId, success, message) ==
    updateToolStatus(S, actionId, IF success THEN "success" ELSE "failed", message)

handleDone(S, convId, summary) ==
    [S EXCEPT !.loading = FALSE,
              !.conv = convId,
              !.msgs = FoldRound(S.msgs, S.content, S.tools),
              !.stats = IF summary THEN TRUE ELSE @,
              !.content = 0,
              !.tools = <<>>,
              !.pc = NoConfirm]

handleError(S, recoverable) == [S EXCEPT !.loading = IF recoverable THEN @ ELSE FALSE]

handleConnected(S, convId) == [S EXCEPT !.conv = IF convId # 0 THEN convId ELSE @]

\* ---------------------------------------------------------------- Init
Init ==
    /\ ws = 0
    /\ sock = [n \in 1..MaxSockets |-> "none"]
    /\ connectionStatus = "disconnected"
    /\ lastError = "null"
    /\ reconnectAttempts = 0
    /\ reconnectTimer = "null"
    /\ reconnectDelay = 0
    /\ looseTimers = 0
    /\ conversationId = 0
    /\ messages = <<>>
    /\ isLoading = FALSE
    /\ streamingContent = 0
    /\ currentRoundTools = <<>>
    /\ pendingConfirm = NoConfirm
    /\ executionStats = FALSE
    /\ rest = NoRest
    /\ srvTurn = 0
    /\ submitted = [i \in Ids |-> "none"]
    /\ last = Op("init")

\* ------------------------------------------- frames from the server
\* The server pushes frames on the socket on which it runs a turn, also while
\* the client's close handshake is still in progress.
FrameOk(s) == sock[s] \in {"open", "closing"} /\ srvTurn = s

\* a frame handled on socket s, explored while the history has at most
\* maxMessages Messages
FrameWithin(s, S, op, maxMessages) ==
    /\ FrameOk(s)
    /\ Len(S.tools) <= MaxTools
    /\ Len(S.msgs) <= maxMessages
    /\ S.content <= MaxContent
    /\ SetSess(S)
    /\ last' = op
    /\ UNCHANGED <<ws, sock, connectionStatus, reconnectAttempts, reconnectTimer,
                   reconnectDelay, looseTimers, rest>>

Frame(s, S, op) == FrameWithin(s, S, op, MaxMessages)

RecvContent(s) ==
    /\ Frame(s, handleContent(Sess), Op("content"))
    /\ UNCHANGED <<lastError, srvTurn, submitted>>

RecvToolCall(s, toolName, params, callId) ==
    /\ Frame(s, handleToolCall(Sess, toolName, params, callId), Op("tool_call"))
    /\ UNCHANGED <<lastError, srvTurn, submitted>>

RecvToolExecuting(s, toolName, params, preview, callId) ==
    /\ Frame(s, handleToolExecuting(Sess, toolName, params, preview, callId), Op("tool_executing"))
    /\ UNCHANGED <<lastError, srvTurn, submitted>>

RecvToolResult(s, toolName, callId, success, message) ==
    /\ Frame(s, handleToolResult(Sess, toolName, callId, success, message), Op("tool_result"))
    /\ UNCHANGED <<lastError, srvTurn, submitted>>

RecvConfirmActions(s, rawActions, awaitingConfirmation) ==
    /\ Frame(s, handleConfirmActions(Sess, rawActions, awaitingConfirmation), Op("confirm_actions"))
    /\ submitted' = Mark({ rawActions[k].action_id : k \in DOMAIN rawActions }, "none")
    /\ UNCHANGED <<lastError, srvTurn>>

RecvToolExecuted(s, actionId, success, message) ==
    /\ Frame(s, handleToolExecuted(Sess, actionId, success, message),
             OpSent("tool_executed", "none", <<actionId>>, <<>>, success))
    /\ UNCHANGED <<lastError, srvTurn, submitted>>

RecvDoneWithin(s, convId, summary, maxMessages) ==
    /\ FrameWithin(s, handleDone(Sess, convId, summary), Op("done"), maxMessages)
    /\ srvTurn' = 0
    /\ UNCHANGED <<lastError, submitted>>

RecvDone(s, convId, summary) == RecvDoneWithin(s, convId, summary, MaxMessages)

RecvError(s, recoverable) ==
    /\ Frame(s, handleError(Sess, recoverable), Op("error"))
    /\ lastError' = "error"
    /\ srvTurn' = IF recoverable THEN srvTurn ELSE 0
    /\ UNCHANGED submitted

RecvConnected(s, convId) ==
    /\ sock[s] = "open"
    /\ SetSess(handleConnected(Sess, convId))
    /\ last' = Op("connected")
    /\ UNCHANGED <<connVars, rest, srvTurn, submitted>>

\* ------------------------------------------- events of the sockets
Connect ==
    /\ Creates(Conn) => FreeSocket(Conn)
    /\ SetConn(connect(Conn))
    /\ last' = Op("connect")
    /\ UNCHANGED <<sessVars, rest, srvTurn, submitted>>

\* onMounted of the panel: the first connect()
Mount ==
    /\ \A n \in DOMAIN sock : sock[n] = "none"
    /\ Connect

OnOpen(s) ==
    /\ sock[s] = "connecting"
    /\ SetConn(onopen(Conn, s))
    /\ last' = Op("onopen")
    /\ UNCHANGED <<sessVars, rest, srvTurn, submitted>>

\* the close event of socket s: onerror first when the connection failed,
\* then onclose
OnClose(s, code, failed) ==
    /\ sock[s] \in {"connecting", "open", "closing"}
    /\ SetConn(onclose(IF failed THEN onerror(Conn) ELSE Conn, s, code))
    /\ SetSess(DropConfirm(Sess))
    /\ srvTurn' = IF srvTurn = s THEN 0 ELSE srvTurn
    /\ looseTimers' <= MaxLoose
    /\ last' = OpSent("onclose", "none", <<code>>, <<>>, ~failed)
    /\ UNCHANGED <<rest, submitted>>

\* the reconnect timer of scheduleReconnect fires: connect()
ReconnectTimerFires ==
    /\ reconnectTimer = "live"
    /\ LET C == [Conn EXCEPT !.timer = "fired"]
       IN  /\ Creates(C) => FreeSocket(C)
           /\ SetConn(connect(C))
    /\ last' = Op("reconnect_timer")
    /\ UNCHANGED <<sessVars, rest, srvTurn, submitted>>

\* a timer no handle references fires: connect()
LooseTimerFires ==
    /\ looseTimers > 0
    /\ LET C == [Conn EXCEPT !.loose = @ - 1]
       IN  /\ Creates(C) => FreeSocket(C)
           /\ SetConn(connect(C))
    /\ last' = Op("loose_timer")
    /\ UNCHANGED <<sessVars, rest, srvTurn, submitted>>

Disconnect ==
    /\ SetConn(disconnect(Conn))
    /\ last' = Op("disconnect")
    /\ UNCHANGED <<sessVars, rest, srvTurn, submitted>>

\* onUnmounted: the reconnect timer is cleared, then disconnect()
Unmount ==
    /\ SetConn(disconnect([Conn EXCEPT !.timer = "null"]))
    /\ last' = Op("unmount")
    /\ UNCHANGED <<sessVars, rest, srvTurn, submitted>>

\* reconnect(): disconnect(); setTimeout(connect, 1000)
Reconnect ==
    /\ looseTimers < MaxLoose
    /\ SetConn([disconnect(Conn) EXCEPT !.loose = @ + 1])
    /\ last' = Op("reconnect")
    /\ UNCHANGED <<sessVars, rest, srvTurn, submitted>>

\* ------------------------------------- the panel (AuthorNotesSection.vue)
isApplying == rest.phase # "idle"
isConnected == connectionStatus = "connected"

IdsWith(actions, status) ==
    IdsOf(SelectSeq(actions, LAMBDA t : t.status = status))

CountWith(actions, status) == Len(SelectSeq(actions, LAMBDA t : t.status = status))

\* the card of the streaming area that lists pendingConfirm.actions
ConfirmCardShown == pendingConfirm.active /\ Len(pendingConfirm.tools) > 0

\* the batch bar under the actions of a history Message
HistoryBarShown(m) ==
    LET acts == MsgActions(m)
    IN  /\ \E i \in DOMAIN acts : acts[i].status \in {"pending", "approved", "rejected"}
        /\ \E i \in DOMAIN acts : acts[i].status \notin {"applied", "failed"}

\* an approve/reject button is rendered for every listed action that is pending
PendingShown(id) ==
    \/ /\ ConfirmCardShown
       /\ \E i \in DOMAIN pendingConfirm.tools :
             pendingConfirm.tools[i].id = id /\ pendingConfirm.tools[i].status = "pending"
    \/ \E n \in DOMAIN messages :
          \E i \in DOMAIN MsgActions(messages[n]) :
             MsgActions(messages[n])[i].id = id /\ MsgActions(messages[n])[i].status = "pending"

\* what a call of sendMessage(frame) does to the wire and the server
Wire(name, frame, a, r) ==
    /\ last' = OpSent(name, IF CanSend THEN frame ELSE "none", a, r, CanSend)
    /\ srvTurn' = IF CanSend THEN ws ELSE srvTurn

\* sendMessage() of the panel
UiSendMessage ==
    /\ isConnected /\ ~isLoading
    /\ Len(messages) < MaxMessages
    /\ SetSess(sendUserMessage(Sess))
    /\ lastError' = "null"
    /\ Wire("sendUserMessage", "user_message", <<>>, <<>>)
    /\ UNCHANGED <<ws, sock, connectionStatus, reconnectAttempts, reconnectTimer,
                   reconnectDelay, looseTimers, rest, submitted>>

LocalDecision(S, op) ==
    /\ ~isApplying
    /\ SetSess(S)
    /\ last' = op
    /\ UNCHANGED <<connVars, rest, srvTurn, submitted>>

UiApproveAction(id) ==
    /\ PendingShown(id)
    /\ LocalDecision(approveAction(Sess, id),
                     OpSent("approveAction", "none", <<id>>, <<>>, TRUE))

UiRejectAction(id) ==
    /\ PendingShown(id)
    /\ LocalDecision(rejectAction(Sess, id),
                     OpSent("rejectAction", "none", <<id>>, <<>>, TRUE))

UiConfirmAllPending ==
    /\ ConfirmCardShown
    /\ CountWith(pendingConfirm.tools, "pending") > 1
    /\ LocalDecision(confirmAll(Sess), Op("confirmAll"))

UiRejectAllPending ==
    /\ ConfirmCardShown
    /\ CountWith(pendingConfirm.tools, "pending") > 1
    /\ LocalDecision(rejectAll(Sess), Op("rejectAll"))

\* confirmAll(msg.actions) / rejectAll(msg.actions) of the history bar
UiConfirmAllHistory(n) ==
    /\ n \in DOMAIN messages
    /\ HistoryBarShown(messages[n])
    /\ CountWith(MsgActions(messages[n]), "pending") > 1
    /\ LocalDecision(UpdateEach(Sess, IdsWith(MsgActions(messages[n]), "pending"), "approved"),
                     Op("confirmAllHistory"))

UiRejectAllHistory(n) ==
    /\ n \in DOMAIN messages
    /\ HistoryBarShown(messages[n])
    /\ CountWith(MsgActions(messages[n]), "pending") > 1
    /\ LocalDecision(UpdateEach(Sess, IdsWith(MsgActions(messages[n]), "pending"), "rejected"),
                     Op("rejectAllHistory"))

\* the lists a submission computes from the listed actions
ApprovedIds(actions) == IdsWith(actions, "approved")
RejectedIds(actions) == IdsWith(actions, "rejected") \o IdsWith(actions, "pending")

\* an apply/discard request leaves: applyActions(approved) first when there
\* is something approved, else discardActions(rejected)
StartRest(name, a, r, origin) ==
    /\ rest' = [phase |-> IF a # <<>> THEN "apply" ELSE "discard",
                approved |-> a, rejected |-> r, origin |-> origin, keep |-> rest.keep]
    /\ submitted' = IF a # <<>> THEN Mark(SeqToSet(a), "outband")
                    ELSE Mark(SeqToSet(r), "discarded")
    /\ last' = OpSent(name, IF a # <<>> THEN "apply" ELSE "discard", a, r, TRUE)
    /\ UNCHANGED <<connVars, sessVars, srvTurn>>

\* a call of sendConfirmResponse(approved, rejected): last.ok is what it returns
CallSendConfirmResponse(name, a, r) ==
    /\ Len(sendConfirmResponse(Sess, a, r).msgs) <= MaxMessages
    /\ SetSess(sendConfirmResponse(Sess, a, r))
    /\ IF Awaiting(Sess)
       THEN /\ Wire(name, "confirm_response", a, r)
            /\ submitted' = IF CanSend THEN MarkInBand(SeqToSet(a), SeqToSet(r))
                            ELSE submitted
       ELSE /\ last' = OpSent(name, "none", a, r, FALSE)
            /\ UNCHANGED <<srvTurn, submitted>>
    /\ UNCHANGED <<connVars, rest>>

\* submitPendingActions -> applySelectedActions
UiSubmitPending ==
    /\ ConfirmCardShown
    /\ ~isApplying
    /\ LET a == ApprovedIds(pendingConfirm.tools)
           r == RejectedIds(pendingConfirm.tools)
       IN  IF a = <<>> /\ r = <<>>
           THEN /\ last' = Op("submitPendingActions")
                /\ UNCHANGED <<connVars, sessVars, rest, srvTurn, submitted>>
           ELSE IF Awaiting(Sess)
           THEN CallSendConfirmResponse("submitPendingActions", a, r)
           ELSE StartRest("submitPendingActions", a, r, "pending")

\* submitHistoryActions(msg.actions)
UiSubmitHistory(n) ==
    /\ n \in DOMAIN messages
    /\ HistoryBarShown(messages[n])
    /\ ~isApplying
    /\ StartRest("submitHistoryActions", ApprovedIds(MsgActions(messages[n])),
                 RejectedIds(MsgActions(messages[n])), "history")

\* the end of a submission once its requests have returned. Only
\* applySelectedActions clears pendingConfirm and sends the "continue" turn.
Finish(S, name) ==
    LET S1 == IF rest.origin = "pending" /\ S.pc.active
                 /\ CountWith(S.pc.tools, "pending") = 0
              THEN DropConfirm(S) ELSE S
        continue == /\ rest.origin = "pending"
                    /\ Len(rest.approved) > 0
                    /\ isConnected
                    /\ ~S1.loading
    IN  /\ rest' = [NoRest EXCEPT !.keep = rest.keep]
        /\ IF continue
           THEN /\ Len(S1.msgs) < MaxMessages
                /\ SetSess(sendUserMessage(S1))
                /\ lastError' = "null"
                /\ Wire(name, "user_message", <<>>, <<>>)
           ELSE /\ SetSess(S1)
                /\ last' = Op(name)
                /\ UNCHANGED <<lastError, srvTurn>>
        /\ UNCHANGED <<ws, sock, connectionStatus, reconnectAttempts, reconnectTimer,
                       reconnectDelay, looseTimers, submitted>>

\* applyActions resolves; succeeded is the set of ids reported with success
ApplyReturns(succeeded) ==
    /\ rest.phase = "apply"
    /\ succeeded \subseteq SeqToSet(rest.approved)
    /\ LET successIds == SelectSeq(rest.approved, LAMBDA id : id \in succeeded)
           failedIds  == SelectSeq(rest.approved, LAMBDA id : id \notin succeeded)
           S1 == markActionsFailed(markActionsApplied(Sess, successIds), failedIds)
       IN  IF rest.rejected # <<>>
           THEN /\ SetSess(S1)
                /\ rest' = [rest EXCEPT !.phase = "discard"]
                /\ submitted' = Mark(SeqToSet(rest.rejected), "discarded")
                /\ last' = OpSent("applyReturned", "discard", <<>>, rest.rejected, TRUE)
                /\ UNCHANGED <<connVars, srvTurn>>
           ELSE Finish(S1, "applyReturned")

\* discardActions resolves
DiscardReturns ==
    /\ rest.phase = "discard"
    /\ Finish(Sess, "discardReturned")

\* applyActions or discardActions rejects: the catch block
RestThrows ==
    /\ rest.phase \in {"apply", "discard"}
    /\ SetSess(markActionsFailed(Sess, rest.approved))
    /\ rest' = [NoRest EXCEPT !.keep = rest.keep]
    /\ last' = Op("restThrew")
    /\ UNCHANGED <<connVars, srvTurn, submitted>>

\* ----------------------------------------- conversations and rollback
isReverting == rest.keep # 0

\* the ToolExecution that selectConversation builds from a persisted
\* executed_tools record, or from an action when the Message has no
\* executed_tools: it has no id and no requires_confirmation
LoadedTool(t, message) ==
    [NewTool(0, t.tool_name, t.params, t.status, FALSE, t.preview)
        EXCEPT !.message = message]

\* the entry of msg.actions that selectConversation builds from a persisted
\* action
LoadedAction(a) == NewTool(a.action_id, a.tool_name, a.params, a.status, FALSE, a.preview)

\* the map of selectConversation over one persisted message
LoadedMessage(rec) ==
    [role |-> rec.role, content |-> rec.content, shared |-> FALSE,
     tools |-> IF rec.executed_tools # <<>>
               THEN [k \in DOMAIN rec.executed_tools |->
                        LoadedTool(rec.executed_tools[k], rec.executed_tools[k].message)]
               ELSE [k \in DOMAIN rec.actions |-> LoadedTool(rec.actions[k], 0)],
     actions |-> [k \in DOMAIN rec.actions |-> LoadedAction(rec.actions[k])]]

loadMessages(S, history, convId) ==
    [S EXCEPT !.msgs = history, !.conv = IF convId # 0 THEN convId ELSE @]

clearConversation(S) ==
    [S EXCEPT !.msgs = <<>>, !.conv = 0, !.content = 0, !.tools = <<>>,
              !.pc = NoConfirm, !.stats = FALSE]

\* getConversationDetail resolves in selectConversation
SelectConversationReturns(records, convId) ==
    /\ SetSess(loadMessages(Sess, [k \in DOMAIN records |-> LoadedMessage(records[k])], convId))
    /\ last' = Op("selectConversation")
    /\ UNCHANGED <<connVars, rest, srvTurn, submitted>>

StartNewConversation ==
    /\ SetSess(clearConversation(Sess))
    /\ lastError' = "null"
    /\ last' = Op("startNewConversation")
    /\ UNCHANGED <<ws, sock, connectionStatus, reconnectAttempts, reconnectTimer,
                   reconnectDelay, looseTimers, rest, srvTurn, submitted>>

\* index counts from 1 here
canRevertToMessage(index) ==
    /\ messages[index].role = "assistant"
    /\ index < Len(messages)
    /\ ~(isLoading \/ isReverting)
    /\ conversationId # 0

\* messages.slice(0, keepCount) that keeps one Message less
sliceShort(msgs, keepCount) ==
    SubSeq(msgs, 1, IF keepCount - 1 < Len(msgs) THEN keepCount - 1 ELSE Len(msgs))

\* messages.slice(0, keepCount)
slice(msgs, keepCount) ==
    SubSeq(msgs, 1, IF keepCount < Len(msgs) THEN keepCount ELSE Len(msgs))

\* revertToMessage(index) up to its await: the user confirms the dialog and
\* truncateConversation(projectId, conversationId, index + 1) leaves
UiRevertToMessage(index) ==
    /\ index \in DOMAIN messages
    /\ canRevertToMessage(index)
    /\ rest' = [rest EXCEPT !.keep = index]
    /\ last' = OpSent("revertToMessage", "truncate", <<index>>, <<>>, TRUE)
    /\ UNCHANGED <<connVars, sessVars, srvTurn, submitted>>

\* truncateConversation resolves; last records keepCount and the number of
\* Messages the slice was taken from
TruncateReturns ==
    /\ isReverting
    /\ messages' = slice(messages, rest.keep)
    /\ rest' = [rest EXCEPT !.keep = 0]
    /\ last' = OpSent("truncateReturned", "none", <<rest.keep>>, <<Len(messages)>>, TRUE)
    /\ UNCHANGED <<connVars, conversationId, isLoading, streamingContent, currentRoundTools,
                   pendingConfirm, executionStats, srvTurn, submitted>>

\* truncateConversation rejects: the catch block alerts
TruncateThrows ==
    /\ isReverting
    /\ rest' = [rest EXCEPT !.keep = 0]
    /\ last' = Op("truncateThrew")
    /\ UNCHANGED <<connVars, sessVars, srvTurn, submitted>>

\* ------------------------------------------ the panel GMAgentPanel.vue
\* GMAgentPanel.vue is a component of its own: it talks to the server over
\* the HTTP stream and keeps refs of its own named messages, isLoading,
\* streamingContent, conversationId and isApplying. SpecGmPanel runs that
\* component alone, on the variables of these names; its Messages carry
\* their proposed actions in actions, and a discarded action has status
\* "discarded".
GmMessage(role, content, actions) ==
    [role |-> role, content |-> content, tools |-> <<>>, shared |-> FALSE,
     actions |-> actions]

\* the action_ids with status pending, over all Messages in order
RECURSIVE GmPendingIds(_)
GmPendingIds(msgs) ==
    IF msgs = <<>> THEN <<>>
    ELSE IdsWith(Head(msgs).actions, "pending") \o GmPendingIds(Tail(msgs))

\* sendMessage up to the stream
GmSendMessage ==
    /\ ~isLoading
    /\ Len(messages) + 1 < MaxGmMessages
    /\ isLoading' = TRUE
    /\ streamingContent' = 0
    /\ messages' = Append(messages, GmMessage("user", 1, <<>>))
    /\ last' = Op("gm_sendMessage")
    /\ UNCHANGED <<connVars, conversationId, currentRoundTools, pendingConfirm,
                   executionStats, rest, srvTurn, submitted>>

\* a content event of the stream
GmStreamContent ==
    /\ isLoading
    /\ streamingContent < MaxContent
    /\ streamingContent' = streamingContent + 1
    /\ last' = Op("gm_content")
    /\ UNCHANGED <<connVars, conversationId, messages, isLoading, currentRoundTools,
                   pendingConfirm, executionStats, rest, srvTurn, submitted>>

\* the stream ends: the assistant Message is pushed with the actions of the
\* pending_actions event (failed: with the error text and no actions)
GmStreamEnds(actions, failed) ==
    /\ isLoading
    /\ messages # <<>> /\ messages[Len(messages)].role = "user"
    /\ messages' = Append(messages,
                      GmMessage("assistant", 1,
                                IF failed THEN <<>>
                                ELSE [k \in DOMAIN actions |->
                                        NewTool(actions[k].action_id, actions[k].tool_name,
                                                actions[k].params, "pending", FALSE, 1)]))
    /\ isLoading' = FALSE
    /\ streamingContent' = 0
    /\ conversationId' = 1
    /\ last' = Op("gm_streamEnded")
    /\ UNCHANGED <<connVars, currentRoundTools, pendingConfirm, executionStats, rest,
                   srvTurn, submitted>>

\* the write loops after the await of applyAllPending / discardAllPending
GmMarkResults(msgs, ids, succeeded) ==
    [n \in DOMAIN msgs |->
        [msgs[n] EXCEPT !.actions =
            [i \in DOMAIN msgs[n].actions |->
                LET a == msgs[n].actions[i]
                IN  IF a.id \in SeqToSet(ids)
                    THEN [a EXCEPT !.status = IF a.id \in succeeded THEN "applied"
                                              ELSE "failed"]
                    ELSE a]]]

GmMarkDiscarded(msgs, ids) ==
    [n \in DOMAIN msgs |->
        [msgs[n] EXCEPT !.actions =
            [i \in DOMAIN msgs[n].actions |->
                LET a == msgs[n].actions[i]
                IN  IF a.status = "pending"
                    THEN [a EXCEPT !.status = "discarded"] ELSE a]]]

\* applyAllPending / discardAllPending up to the await
GmStartAll(name, phase) ==
    /\ ~isApplying
    /\ GmPendingIds(messages) # <<>>
    /\ rest' = [rest EXCEPT !.phase = phase, !.origin = "gm",
                            !.approved = IF phase = "apply" THEN GmPendingIds(messages)
                                         ELSE <<>>,
                            !.rejected = IF phase = "discard" THEN GmPendingIds(messages)
                                         ELSE <<>>]
    /\ last' = OpSent(name, phase,
                      IF phase = "apply" THEN GmPendingIds(messages) ELSE <<>>,
                      IF phase = "discard" THEN GmPendingIds(messages) ELSE <<>>, TRUE)
    /\ UNCHANGED <<connVars, sessVars, srvTurn, submitted>>

GmApplyAllPending == GmStartAll("gm_applyAllPending", "apply")
GmDiscardAllPending == GmStartAll("gm_discardAllPending", "discard")

GmEndAll(name, msgs) ==
    /\ rest.origin = "gm"
    /\ messages' = msgs
    /\ rest' = [NoRest EXCEPT !.keep = rest.keep]
    /\ last' = OpSent(name, "none", rest.approved, rest.rejected, TRUE)
    /\ UNCHANGED <<connVars, conversationId, isLoading, streamingContent, currentRoundTools,
                   pendingConfirm, executionStats, srvTurn, submitted>>

GmApplyAllReturns(succeeded) ==
    /\ rest.phase = "apply"
    /\ succeeded \subseteq SeqToSet(rest.approved)
    /\ GmEndAll("gm_applyAllReturned", GmMarkResults(messages, rest.approved, succeeded))

GmDiscardAllReturns ==
    /\ rest.phase = "discard"
    /\ GmEndAll("gm_discardAllReturned", GmMarkDiscarded(messages, rest.rejected))

\* the request rejects: the catch block logs
GmRestThrows ==
    /\ rest.phase # "idle"
    /\ GmEndAll("gm_restThrew", messages)

\* ------------------------------------------------- the inputs of Spec
Sockets == 1..MaxSockets
ToolNames == {"t1"}
ParamValues == {1}
\* call ids are not action ids; 0: the frame carries no call_id
CallIds == {0, MaxId + 1}
ActionLists ==
    { <<[action_id |-> i, tool_name |-> n, params |-> p]>> :
          i \in Ids, n \in ToolNames, p \in ParamValues }
    \cup
    UNION { { <<[action_id |-> i, tool_name |-> n, params |-> p],
                [action_id |-> j, tool_name |-> n, params |-> p]>> :
                  j \in Ids \ {i}, n \in ToolNames, p \in ParamValues } : i \in Ids }

\* the frames of the confirmation protocol
ConfirmFrame ==
    \E s \in Sockets :
        \/ \E raw \in ActionLists, aw \in BOOLEAN : RecvConfirmActions(s, raw, aw)
        \/ \E i \in Ids, ok \in BOOLEAN : RecvToolExecuted(s, i, ok, 0)
        \/ RecvDone(s, 1, TRUE)

ServerFrame == ConfirmFrame \/ \E s \in Sockets : RecvContent(s)

\* the frames that report the tools the server runs without confirmation
ToolFrame ==
    \E s \in Sockets :
        \/ \E n \in ToolNames, p \in ParamValues, c \in CallIds : RecvToolCall(s, n, p, c)
        \/ \E n \in ToolNames, p \in ParamValues, c \in CallIds :
              RecvToolExecuting(s, n, p, 1, c)
        \/ \E n \in ToolNames, c \in CallIds, ok \in BOOLEAN :
              RecvToolResult(s, n, c, ok, 0)
        \/ \E rec \in BOOLEAN : RecvError(s, rec)

SocketEvent ==
    \/ Mount
    \/ \E s \in Sockets : OnOpen(s)
    \/ \E s \in Sockets : OnClose(s, 1000, FALSE)

\* the connection fails or drops
SocketFailure == \E s \in Sockets : OnClose(s, 1006, TRUE)

UserAction ==
    \/ UiSendMessage
    \/ \E i \in Ids : UiApproveAction(i)
    \/ \E i \in Ids : UiRejectAction(i)
    \/ UiConfirmAllPending
    \/ UiRejectAllPending
    \/ UiSubmitPending
    \/ \E n \in 1..MaxMessages : UiConfirmAllHistory(n)
    \/ \E n \in 1..MaxMessages : UiRejectAllHistory(n)
    \/ \E n \in 1..MaxMessages : UiSubmitHistory(n)

RestEvent ==
    \/ \E ok \in SUBSET Ids : ApplyReturns(ok)
    \/ DiscardReturns
    \/ RestThrows

Next == ServerFrame \/ SocketEvent \/ UserAction \/ RestEvent

Spec == Init /\ [][Next]_vars

\* every frame type, with a user who only sends messages
NextStream ==
    ServerFrame \/ ToolFrame \/ SocketEvent \/ SocketFailure \/ Disconnect \/ UiSendMessage

SpecStream == Init /\ [][NextStream]_vars

\* the composable's functions called directly, in any state
IdLists == {<<>>} \cup { <<i>> : i \in Ids } \cup { p \in Ids \X Ids : p[1] < p[2] }
Decisions == { d \in IdLists \X IdLists : SeqToSet(d[1]) \cap SeqToSet(d[2]) = {} }

ApiSendConfirmResponse(a, r) == CallSendConfirmResponse("sendConfirmResponse", a, r)
ApiApproveAction(id) ==
    LocalDecision(approveAction(Sess, id), OpSent("approveAction", "none", <<id>>, <<>>, TRUE))
ApiRejectAction(id) ==
    LocalDecision(rejectAction(Sess, id), OpSent("rejectAction", "none", <<id>>, <<>>, TRUE))
ApiConfirmAll == LocalDecision(confirmAll(Sess), Op("confirmAll"))
ApiRejectAll == LocalDecision(rejectAll(Sess), Op("rejectAll"))
\* confirmAll(); rejectAll() in one task
ApiConfirmAllRejectAll ==
    LocalDecision(rejectAll(confirmAll(Sess)), Op("confirmAll_rejectAll"))

ApiCall ==
    \/ \E d \in Decisions : ApiSendConfirmResponse(d[1], d[2])
    \/ \E i \in Ids : ApiApproveAction(i)
    \/ \E i \in Ids : ApiRejectAction(i)
    \/ ApiConfirmAll
    \/ ApiRejectAll
    \/ ApiConfirmAllRejectAll

NextApi == ConfirmFrame \/ SocketEvent \/ UiSendMessage \/ ApiCall

SpecApi == Init /\ [][NextApi]_vars

\* the connection alone: the user's calls, the sockets' events and the timers
CloseEvent ==
    \E s \in Sockets :
        \* the server closes normally
        \/ sock[s] \in {"open", "closing"} /\ OnClose(s, 1000, FALSE)
        \* the connection fails or is lost
        \/ OnClose(s, 1006, TRUE)
        \* the close handshake that ws.close() started completes: the event
        \* carries 1005, no status code having been given
        \/ sock[s] = "closing" /\ OnClose(s, 1005, FALSE)

NextConn ==
    \/ Connect
    \/ \E s \in Sockets : OnOpen(s)
    \/ \E s \in Sockets : RecvConnected(s, 1)
    \/ CloseEvent
    \/ ReconnectTimerFires
    \/ LooseTimerFires
    \/ Disconnect
    \/ Reconnect
    \/ Unmount

SpecConn == Init /\ [][NextConn]_vars

\* conversations loaded from the server and rolled back
Records ==
    { [role |-> "user", content |-> 1, executed_tools |-> <<>>, actions |-> <<>>],
      [role |-> "assistant", content |-> 1,
       executed_tools |-> <<[tool_name |-> "t1", params |-> 1, status |-> "success",
                             message |-> 1, preview |-> 0]>>,
       actions |-> <<>>],
      [role |-> "assistant", content |-> 1, executed_tools |-> <<>>,
       actions |-> <<[action_id |-> 1, tool_name |-> "t1", params |-> 1,
                      status |-> "pending", preview |-> 1]>>] }

Histories == UNION { [1..n -> Records] : n \in 0..MaxMessages }

NextRevert ==
    \/ Mount
    \/ \E s \in Sockets : OnOpen(s)
    \/ UiSendMessage
    \/ \E s \in Sockets : RecvContent(s)
    \/ \E s \in Sockets : RecvDone(s, 1, TRUE)
    \/ \E h \in Histories : SelectConversationReturns(h, 1)
    \/ StartNewConversation
    \/ \E i \in Ids : UiApproveAction(i)
    \/ \E n \in 1..MaxMessages : UiRevertToMessage(n)
    \/ TruncateReturns
    \/ TruncateThrows

SpecRevert == Init /\ [][NextRevert]_vars

GmActionLists ==
    {<<>>} \cup { <<[action_id |-> i, tool_name |-> n, params |-> p]>> :
                    i \in Ids, n \in ToolNames, p \in ParamValues }

NextGmPanel ==
    \/ GmSendMessage
    \/ GmStreamContent
    \/ \E acts \in GmActionLists : GmStreamEnds(acts, FALSE)
    \/ GmStreamEnds(<<>>, TRUE)
    \/ GmApplyAllPending
    \/ GmDiscardAllPending
    \/ \E ok \in SUBSET Ids : GmApplyAllReturns(ok)
    \/ GmDiscardAllReturns
    \/ GmRestThrows

SpecGmPanel == Init /\ [][NextGmPanel]_vars

\* the frames of the tools that need no confirmation, for two tool names
TwoToolNames == {"t1", "t2"}

ReadOnlyToolFrame ==
    \E s \in Sockets, n \in TwoToolNames, c \in CallIds :
        \/ RecvToolCall(s, n, 1, c)
        \/ RecvToolExecuting(s, n, 1, 1, c)
        \/ \E ok \in BOOLEAN : RecvToolResult(s, n, c, ok, 0)

NextTools ==
    \/ Mount
    \/ \E s \in Sockets : OnOpen(s)
    \/ UiSendMessage
    \/ ReadOnlyToolFrame
    \/ \E s \in Sockets : RecvDone(s, 1, FALSE)

SpecTools == Init /\ [][NextTools]_vars

\* the same frames in a Round that pauses for an in-band confirmation
NextToolsConfirm ==
    \/ Mount
    \/ \E s \in Sockets : OnOpen(s)
    \/ UiSendMessage
    \/ \E s \in Sockets : RecvToolCall(s, "t2", 1, MaxId + 1)
    \/ \E s \in Sockets, ok \in BOOLEAN : RecvToolResult(s, "t2", MaxId + 1, ok, 0)
    \/ \E s \in Sockets, raw \in ActionLists : RecvConfirmActions(s, raw, TRUE)
    \/ \E d \in Decisions : ApiSendConfirmResponse(d[1], d[2])
    \/ \E s \in Sockets : RecvDone(s, 1, FALSE)

SpecToolsConfirm == Init /\ [][NextToolsConfirm]_vars

\* cancelTask(), called in any state; the server may still send the frames
\* of the turn it was running
CancelTask ==
    /\ SetSess(cancelTask(Sess))
    /\ last' = OpSent("cancelTask", IF CanSend THEN "cancel" ELSE "none", <<>>, <<>>, CanSend)
    /\ UNCHANGED <<connVars, rest, srvTurn, submitted>>

NextCancel ==
    \/ SocketEvent
    \/ UiSendMessage
    \/ ServerFrame
    \/ \E s \in Sockets, n \in ToolNames, c \in CallIds : RecvToolCall(s, n, 1, c)
    \/ CancelTask

SpecCancel == Init /\ [][NextCancel]_vars

\* one Round with an in-band confirmation, followed to its 'done' also when
\* that adds a Message beyond the bound on the history
NextRound ==
    \/ Mount
    \/ \E s \in Sockets : OnOpen(s)
    \/ UiSendMessage
    \/ \E s \in Sockets : RecvContent(s)
    \/ \E s \in Sockets, raw \in ActionLists : RecvConfirmActions(s, raw, TRUE)
    \/ \E d \in Decisions : ApiSendConfirmResponse(d[1], d[2])
    \/ \E s \in Sockets, i \in Ids, ok \in BOOLEAN : RecvToolExecuted(s, i, ok, 0)
    \/ \E s \in Sockets : RecvDoneWithin(s, 1, TRUE, MaxMessages + 1)

SpecRound == Init /\ [][NextRound]_vars

\* ================================================================ claims
Statuses(tools) == [i \in DOMAIN tools |-> tools[i].status]
Settled == Terminal \cup {"rejected"}

\* the step is a 'done' frame that appends the Round's assistant Message
DoneFolds == last'.op = "done" /\ Len(messages') = Len(messages) + 1

\* C1 as stated: every ToolExecution of the Message that 'done' finalizes is
\* terminal (applied, success, failed) or rejected, whatever frames came before.
C1_DoneFoldsOnlySettled ==
    [][DoneFolds =>
         \A i \in DOMAIN messages'[Len(messages')].tools :
             messages'[Len(messages')].tools[i].status \in Settled]_vars

\* C1 amended: 'done' finalizes the Round's live list as it stands. Whenever
\* the Round has text or tools, one assistant Message is appended whose tools
\* are the live entries in order, each with the status it had when 'done'
\* arrived; an entry is settled in that Message only if a frame or a decision
\* had settled it before.
C1_DoneFoldsLiveList ==
    [][last'.op = "done" /\ (streamingContent > 0 \/ currentRoundTools # <<>>) =>
         /\ Len(messages') = Len(messages) + 1
         /\ SubSeq(messages', 1, Len(messages)) = messages
         /\ messages'[Len(messages')].role = "assistant"
         /\ messages'[Len(messages')].tools = Unalias(currentRoundTools)
         /\ currentRoundTools' = <<>>]_vars

\* a Round was finalized by 'done' with an entry that no frame had settled
C1_Witness ==
    /\ last.op = "done"
    /\ messages # <<>>
    /\ messages[Len(messages)].role = "assistant"
    /\ \E i \in DOMAIN messages[Len(messages)].tools :
          messages[Len(messages)].tools[i].status \in {"executing", "pending"}

\* the step is the close event of a socket
CloseStep == \E s \in Sockets : sock[s] # "closed" /\ sock'[s] = "closed"

\* C4: whenever a connection closes, after a failure, a drop or a deliberate
\* disconnect, the ConfirmationRequest is discarded and the close changes no
\* ToolExecution status, in the live list or in history.
C4_CloseDiscardsRequest ==
    [][CloseStep =>
         /\ pendingConfirm' = NoConfirm
         /\ Statuses(currentRoundTools') = Statuses(currentRoundTools)
         /\ messages' = messages]_vars

\* the connection closed on an open ConfirmationRequest: its action is still
\* pending in the live list and the request is gone
C4_Witness ==
    /\ last.op = "onclose"
    /\ ~pendingConfirm.active
    /\ \E i \in DOMAIN currentRoundTools :
          /\ currentRoundTools[i].requires_confirmation
          /\ currentRoundTools[i].status = "pending"

\* C5 as stated: when the connection drops on an open ConfirmationRequest,
\* before any confirm_response and before 'done', the request is cleared, the
\* partial Round (its ToolExecutions and streamed text) is dropped without
\* being folded into a Message, and the client stops waiting for the Round.
C5_DropDiscardsRound ==
    [][CloseStep /\ pendingConfirm.active =>
         /\ pendingConfirm' = NoConfirm
         /\ currentRoundTools' = <<>>
         /\ streamingContent' = 0
         /\ messages' = messages
         /\ isLoading' = FALSE]_vars

\* the entries with this id that the ledger S shows: live list, open
\* ConfirmationRequest, tools and actions of every history Message
Entries(S, id) ==
    { S.tools[i] : i \in { k \in DOMAIN S.tools : S.tools[k].id = id } }
    \cup { S.pc.tools[i] : i \in { k \in DOMAIN S.pc.tools : S.pc.tools[k].id = id } }
    \cup UNION { { S.msgs[n].tools[i] :
                     i \in { k \in DOMAIN S.msgs[n].tools : S.msgs[n].tools[k].id = id } }
                 \cup { MsgActions(S.msgs[n])[i] :
                     i \in { k \in DOMAIN MsgActions(S.msgs[n]) :
                                MsgActions(S.msgs[n])[k].id = id } } : n \in DOMAIN S.msgs }

StatusesOf(S, id) == { e.status : e \in Entries(S, id) }

\* the step ends an apply/discard submission without an exception
OutOfBandCompletes == rest.phase # "idle" /\ rest'.phase = "idle" /\ last'.op # "restThrew"

\* C2 as stated: an id still pending when a decision is submitted, in-band or
\* out-of-band, goes out in the rejected list, an id goes out as approved only
\* if its status was approved, and once the submission is through the ledger
\* shows the id rejected, not pending.
C2_PendingSubmittedAsRejected ==
    [][/\ last'.sent \in {"confirm_response", "apply"} =>
            \A k \in DOMAIN last'.a : "approved" \in StatusesOf(Sess, last'.a[k])
       /\ last'.sent = "confirm_response" =>
            \A k \in DOMAIN last'.r : "pending" \notin StatusesOf(Sess', last'.r[k])
       /\ OutOfBandCompletes =>
            \A k \in DOMAIN rest.rejected :
                "pending" \notin StatusesOf(Sess', rest.rejected[k])]_vars

\* C3 as stated: one ConfirmationRequest goes one way. No apply or discard
\* request carries an id whose decision went in-band (not even from the copy
\* of the action in history), and no confirm_response carries an id that was
\* handled out-of-band.
C3_OnePathway ==
    [][/\ last'.sent = "confirm_response" =>
            \A id \in SeqToSet(last'.a) \cup SeqToSet(last'.r) : submitted[id] \notin OutBand
       /\ last'.sent = "apply" =>
            \A id \in SeqToSet(last'.a) : submitted[id] \notin InBand
       /\ last'.sent = "discard" =>
            \A id \in SeqToSet(last'.r) : submitted[id] \notin InBand]_vars

\* the proposed actions that history holds
HistoryActions ==
    UNION { SeqToSet(MsgActions(messages[n])) : n \in DOMAIN messages }

\* C6 as stated: after the in-band round trip (user_message, content,
\* confirm_actions awaiting the decision, all actions approved in one
\* confirm_response, a successful tool_executed for each, done) history holds
\* the one assistant Message of the Round with exactly those actions, all of
\* them applied.
C6_InBandRoundTrip ==
    (/\ last.op = "done"
     /\ HistoryActions # {}
     /\ \A t \in HistoryActions :
           submitted[t.id] = "inband_approved" /\ t.status \in Terminal \ {"failed"})
    => /\ Len(SelectSeq(messages, LAMBDA m : m.role = "assistant")) = 1
       /\ \A t \in HistoryActions : t.status = "applied"

\* C7 as stated: when an out-of-band submission (apply of the approved ids,
\* discard of the others) has completed, every applied id is applied or
\* failed as the result says, every discarded id is rejected, and nothing is
\* streamed because of it: no user_message leaves and the client does not
\* start to wait for a Round.
C7_OutOfBandCompletion ==
    [][OutOfBandCompletes =>
         /\ \A k \in DOMAIN rest.approved :
               StatusesOf(Sess', rest.approved[k]) \subseteq {"applied", "failed"}
         /\ \A k \in DOMAIN rest.rejected :
               StatusesOf(Sess', rest.rejected[k]) \subseteq {"rejected"}
         /\ last'.sent # "user_message"
         /\ isLoading' = isLoading]_vars

\* C8 as stated: the views of the ledger (live list, open ConfirmationRequest,
\* every history Message) never hold different statuses for one id.
C8_ViewsAgree ==
    \A id \in Ids : Cardinality(StatusesOf(Sess, id)) <= 1

\* the status a view shows for an id: that of its first entry with the id
FirstStatus(list, id) ==
    LET k == FirstIdx(WithId(list, id))
    IN  IF k = 0 THEN "absent" ELSE list[k].status

\* the status written by the update that last records
Written(op) ==
    IF op.op = "approveAction" THEN "approved"
    ELSE IF op.op = "rejectAction" THEN "rejected"
    ELSE IF op.ok THEN "success" ELSE "failed"

\* C8 amended: updateToolStatus(id, s) sets, in one step, the status of the
\* first entry with that id in the live list, in the open ConfirmationRequest
\* and in the tools and the actions of every history Message; after the step
\* each of these views shows s for the id, or has no entry with it. (Entries
\* are created with their own status, so an id the server proposes again can
\* show two statuses until it is updated again.)
C8_UpdateReachesEveryView ==
    [][last'.op \in {"approveAction", "rejectAction", "tool_executed"} =>
         LET id == last'.a[1]
             ok == {"absent", Written(last')}
         IN  /\ FirstStatus(currentRoundTools', id) \in ok
             /\ FirstStatus(pendingConfirm'.tools, id) \in ok
             /\ \A n \in DOMAIN messages' :
                   /\ FirstStatus(messages'[n].tools, id) \in ok
                   /\ FirstStatus(MsgActions(messages'[n]), id) \in ok
             /\ Len(messages') = Len(messages)
             /\ Len(currentRoundTools') = Len(currentRoundTools)]_vars

\* a tool_executed frame reached an action that only history holds
C8_Witness ==
    /\ last.op = "tool_executed"
    /\ currentRoundTools = <<>>
    /\ \E n \in DOMAIN messages :
          FirstStatus(messages[n].tools, last.a[1]) = Written(last)

\* C9: sendConfirmResponse called while no ConfirmationRequest awaits the
\* decision (none is open, or awaiting_confirmation is false) returns false,
\* sends no frame and changes nothing: statuses, the Round's list and buffer,
\* history and the ConfirmationRequest stay as they are.
C9_IllegalInBandDecision ==
    [][last'.op = "sendConfirmResponse" /\ ~Awaiting(Sess) =>
         /\ ~last'.ok
         /\ last'.sent = "none"
         /\ UNCHANGED <<sessVars, srvTurn, submitted>>]_vars

\* sendConfirmResponse was called with a decision on an open socket while the
\* open ConfirmationRequest did not await one
C9_Witness ==
    /\ last.op = "sendConfirmResponse"
    /\ ~last.ok
    /\ last.a # <<>>
    /\ IsOpen(Conn)
    /\ pendingConfirm.active
    /\ ~pendingConfirm.awaitingConfirmation
    /\ currentRoundTools # <<>>

\* C10 as stated: approve-all and reject-all change only entries that are
\* pending when they are called; every entry already approved, rejected,
\* applied, success or failed keeps its status.
C10_BatchTouchesOnlyPending ==
    [][last'.op \in {"confirmAll", "rejectAll", "confirmAllHistory", "rejectAllHistory"} =>
         /\ \A i \in DOMAIN pendingConfirm.tools :
               pendingConfirm.tools[i].status # "pending" =>
                   pendingConfirm'.tools[i].status = pendingConfirm.tools[i].status
         /\ \A i \in DOMAIN currentRoundTools :
               currentRoundTools[i].status # "pending" =>
                   currentRoundTools'[i].status = currentRoundTools[i].status
         /\ \A n \in DOMAIN messages : \A i \in DOMAIN messages[n].tools :
               messages[n].tools[i].status # "pending" =>
                   messages'[n].tools[i].status = messages[n].tools[i].status]_vars

\* C11 as stated: approve-all followed at once by reject-all leaves every id
\* that was pending before the first call rejected, and an id that was
\* already approved before the two calls is still approved afterwards.
C11_ApproveAllThenRejectAll ==
    [][last'.op = "confirmAll_rejectAll" =>
         \A i \in DOMAIN pendingConfirm.tools :
             /\ pendingConfirm.tools[i].status = "pending" =>
                    pendingConfirm'.tools[i].status = "rejected"
             /\ pendingConfirm.tools[i].status = "approved" =>
                    pendingConfirm'.tools[i].status = "approved"]_vars

\* the ids of the open ConfirmationRequest
RequestIds(S) == IF S.pc.active THEN SeqToSet(IdsOf(S.pc.tools)) ELSE {}

\* the ids of the ledger's entries, in order: history first, then the live list
RECURSIVE HistoryIds(_)
HistoryIds(msgs) ==
    IF msgs = <<>> THEN <<>> ELSE IdsOf(Head(msgs).tools) \o HistoryIds(Tail(msgs))
LedgerIds(S) == HistoryIds(S.msgs) \o IdsOf(S.tools)

\* the step is approveAction/rejectAction for an id the open
\* ConfirmationRequest does not hold
DecidesUnknownId ==
    /\ last'.op \in {"approveAction", "rejectAction"}
    /\ last'.a[1] \notin RequestIds(Sess)

\* C12 as stated: a decision for an id that the active ConfirmationRequest
\* does not hold is a no-op. approveAction/rejectAction leave the Round's
\* list, the ConfirmationRequest and history unchanged, and an id list given
\* to sendConfirmResponse has the effect of the list without the unknown ids.
C12_UnknownIdNoOp ==
    [][/\ DecidesUnknownId =>
            UNCHANGED <<currentRoundTools, pendingConfirm, messages>>
       /\ last'.op = "sendConfirmResponse" =>
            LET known(l) == SelectSeq(l, LAMBDA id : id \in RequestIds(Sess))
            IN  Sess' = sendConfirmResponse(Sess, known(last'.a), known(last'.r))]_vars

\* C12 amended: a decision for an id that the active ConfirmationRequest does
\* not hold creates no ledger entry. approveAction/rejectAction leave the
\* ConfirmationRequest and every entry with another id unchanged, add and
\* remove no entry, and change at most the status of the entries with that id
\* (the first one in the live list and in each history Message);
\* sendConfirmResponse with any id lists keeps the sequence of the ledger's
\* entry ids (history, then live list) as it was.
C12_UnknownIdCreatesNoEntry ==
    [][/\ DecidesUnknownId =>
            /\ pendingConfirm' = pendingConfirm
            /\ IdsOf(currentRoundTools') = IdsOf(currentRoundTools)
            /\ \A i \in DOMAIN currentRoundTools :
                  /\ [currentRoundTools'[i] EXCEPT !.status = currentRoundTools[i].status]
                        = currentRoundTools[i]
                  /\ currentRoundTools[i].id # last'.a[1] =>
                        currentRoundTools'[i] = currentRoundTools[i]
            /\ Len(messages') = Len(messages)
            /\ \A n \in DOMAIN messages :
                  /\ IdsOf(messages'[n].tools) = IdsOf(messages[n].tools)
                  /\ \A i \in DOMAIN messages[n].tools :
                        /\ [messages'[n].tools[i] EXCEPT !.status = messages[n].tools[i].status]
                              = messages[n].tools[i]
                        /\ messages[n].tools[i].id # last'.a[1] =>
                              messages'[n].tools[i] = messages[n].tools[i]
       /\ last'.op \in {"approveAction", "rejectAction", "sendConfirmResponse"} =>
            LedgerIds(Sess') = LedgerIds(Sess)]_vars

\* approveAction reached, in history, an action that went out rejected in a
\* confirm_response and that the open ConfirmationRequest does not hold
C12_Witness ==
    /\ last.op = "approveAction"
    /\ pendingConfirm.active
    /\ last.a[1] \notin RequestIds(Sess)
    /\ submitted[last.a[1]] = "inband_rejected"
    /\ \E n \in DOMAIN messages : FirstStatus(messages[n].tools, last.a[1]) = "approved"

ToolStatus == {"pending", "executing", "approved", "rejected", "applied", "success", "failed"}

\* C13: updateToolStatus is idempotent. In every state of the ledger, for
\* every id, status and optional message, a second call with the same
\* arguments leaves the Round's list, the ConfirmationRequest and history as
\* the first call left them.
C13_UpdateIdempotent ==
    \A id \in Ids, status \in ToolStatus, message \in {0, 1} :
        updateToolStatus(updateToolStatus(Sess, id, status, message), id, status, message)
            = updateToolStatus(Sess, id, status, message)

\* approveAction has written an id that the live list, the open
\* ConfirmationRequest and history all hold
C13_Witness ==
    /\ last.op = "approveAction"
    /\ FirstStatus(currentRoundTools, last.a[1]) = "approved"
    /\ pendingConfirm.active
    /\ FirstStatus(pendingConfirm.tools, last.a[1]) = "approved"
    /\ \E n \in DOMAIN messages : FirstStatus(messages[n].tools, last.a[1]) = "approved"
    /\ updateToolStatus(Sess, last.a[1], "rejected", 1) # Sess

\* the step is the close event of a connection that failed or was lost
AbnormalClose == last'.op = "onclose" /\ last'.a[1] = 1006

\* C14: counting from the last successful open, the k-th consecutive
\* reconnection attempt after an abnormal close is scheduled with delay
\* 1000 * 2^k ms (1s, 2s, 4s, 8s, 16s); after 5 scheduled attempts a further
\* abnormal close schedules nothing and surfaces the 'reconnect exhausted'
\* error; a successful open sets the count back to zero, and nothing but a
\* close or an open changes the count.
C14_Backoff ==
    [][/\ AbnormalClose /\ reconnectAttempts < MAX_RECONNECT_ATTEMPTS =>
            /\ reconnectTimer' = "live"
            /\ reconnectDelay' = RECONNECT_DELAY_BASE * Pow2(reconnectAttempts)
            /\ reconnectDelay' \in {1000, 2000, 4000, 8000, 16000}
            /\ reconnectAttempts' = reconnectAttempts + 1
       /\ AbnormalClose /\ reconnectAttempts >= MAX_RECONNECT_ATTEMPTS =>
            /\ reconnectAttempts = MAX_RECONNECT_ATTEMPTS
            /\ UNCHANGED <<reconnectAttempts, reconnectTimer, reconnectDelay, looseTimers>>
            /\ lastError' = "exhausted"
       /\ last'.op = "onopen" => reconnectAttempts' = 0
       /\ last'.op \notin {"onclose", "onopen"} => reconnectAttempts' = reconnectAttempts]_vars

\* five attempts were scheduled, the last with 16s, and the connection failed
\* once more: the manager gave up
C14_Witness ==
    /\ last.op = "onclose"
    /\ last.a[1] = 1006
    /\ reconnectAttempts = MAX_RECONNECT_ATTEMPTS
    /\ reconnectDelay = 16000
    /\ lastError = "exhausted"
    /\ reconnectTimer # "live"

\* the step is the close event of a socket that disconnect() had closed
DeliberateCloseStep == \E s \in Sockets : sock[s] = "closing" /\ sock'[s] = "closed"

\* C15 as stated: a deliberate close is told apart from an abnormal loss.
\* When disconnect() returns (from the user or from onUnmounted) no reconnect
\* timer is pending, the close of the socket it closed schedules no
\* reconnection, and only the close event of a failed or lost connection
\* schedules one.
C15_DeliberateClose ==
    [][/\ last'.op \in {"disconnect", "unmount"} => reconnectTimer' # "live"
       /\ DeliberateCloseStep =>
            UNCHANGED <<reconnectAttempts, reconnectTimer, reconnectDelay, looseTimers>>
       /\ reconnectAttempts' > reconnectAttempts =>
            last'.op = "onclose" /\ last'.a[1] \notin {1000, 1001}]_vars

\* C16 as stated: connect() is idempotent. It changes nothing when the
\* connection is open, and a second call that arrives before the first
\* connection has opened leaves the state the first call made: one socket,
\* one connection.
C16_ConnectIdempotent ==
    [][/\ last'.op = "connect"
       /\ \/ IsOpen(Conn)
          \/ last.op = "connect" /\ ws # 0 /\ sock[ws] = "connecting"
       => UNCHANGED connVars]_vars

C18_NoDivergentDuplicates ==
    \A i, j \in DOMAIN currentRoundTools :
        /\ currentRoundTools[i].id # 0
        /\ currentRoundTools[i].id = currentRoundTools[j].id
        => [currentRoundTools[i] EXCEPT !.alias = 0] = [currentRoundTools[j] EXCEPT !.alias = 0]

\* the step leaves a status that is applied, success or failed as it is
KeepsTerminal(from, to) == from \in Terminal => to = from

\* the id was proposed once: one entry of the ledger carries it
ProposedOnce(id) == Len(SelectSeq(LedgerIds(Sess), LAMBDA x : x = id)) = 1

\* C19 as stated, in the case it singles out: a ToolExecution that requires
\* confirmation and is applied, success or failed has left the state machine
\* (pending -> approved | rejected, approved -> applied | success | failed)
\* and its status never changes again, whatever decision handler runs and
\* whatever apply/discard call fails afterwards. (Checked for ids proposed
\* once, on every step of the client's own handlers; a tool_executed frame
\* reports the server's outcome and is left out.)
C19_StatusMachine ==
    [][last'.op # "tool_executed" =>
         \A n \in DOMAIN messages : \A i \in DOMAIN messages[n].tools :
             /\ messages[n].tools[i].requires_confirmation
             /\ ProposedOnce(messages[n].tools[i].id)
             => KeepsTerminal(messages[n].tools[i].status, messages'[n].tools[i].status)]_vars

\* the ids for which the operation that last records issued a request or a
\* decision frame
Issued(op) ==
    IF op.sent = "confirm_response" THEN SeqToSet(op.a) \cup SeqToSet(op.r)
    ELSE IF op.sent = "apply" THEN SeqToSet(op.a)
    ELSE IF op.sent = "discard" THEN SeqToSet(op.r)
    ELSE {}

\* C20 as stated: rejected is terminal once submitted. After an id went out
\* in the rejected list of a confirm_response or in a discard call, no apply,
\* discard or confirm_response is issued for it again (until the server
\* proposes it anew).
C20_RejectedIsFinal ==
    [][\A id \in Ids :
          submitted[id] \in {"inband_rejected", "discarded"} => id \notin Issued(last')]_vars

\* C21 as stated: when an out-of-band apply or discard call completes, only
\* the entries whose id was part of the call change their status; every other
\* entry, also an action of a Round that was streamed and finalized while the
\* call was in flight, keeps its status.
C21_CompletionTouchesOnlyItsIds ==
    [][last'.op \in {"gm_applyAllReturned", "gm_discardAllReturned", "gm_restThrew"} =>
         \A n \in DOMAIN messages : \A i \in DOMAIN messages[n].actions :
             messages[n].actions[i].id \notin SeqToSet(rest.approved) \cup SeqToSet(rest.rejected)
             => messages'[n].actions[i].status = messages[n].actions[i].status]_vars
\* an executing entry of the live list with this tool name
Executing(k, n) ==
    /\ currentRoundTools[k].tool_name = n
    /\ currentRoundTools[k].status = "executing"

\* the entries of the live list that a step has written
LiveWritten(k) == currentRoundTools'[k] # currentRoundTools[k]

\* a tool_executing or tool_result frame with this tool name and call id
ToolProgressFrame(n, c) ==
    \E s \in Sockets :
        \/ RecvToolExecuting(s, n, 1, 1, c)
        \/ \E ok \in BOOLEAN : RecvToolResult(s, n, c, ok, 0)

LedgerPlaces(id) ==
    { <<0, k>> : k \in WithId(currentRoundTools, id) }
    \cup UNION { { <<m, k>> : k \in WithId(messages[m].tools, id) } : m \in DOMAIN messages }

\* C23: a tool_result frame for a call id has the same effect on the Round's
\* list, the ConfirmationRequest and the history as updateToolStatus(id,
\* applied/failed, message), also when the one entry with that id has been
\* moved to the history by an in-band submission.
C23_ToolResultIsUpdateStatus ==
    [][\A ok \in BOOLEAN, c \in CallIds \ {0} :
          (/\ \E s \in Sockets : RecvToolResult(s, "t2", c, ok, 0)
           /\ Cardinality(LedgerPlaces(c)) <= 1) =>
              LET U == updateToolStatus(Sess, c, IF ok THEN "applied" ELSE "failed", 0)
              IN  /\ currentRoundTools' = U.tools
                  /\ pendingConfirm' = U.pc
                  /\ messages' = U.msgs]_vars

\* C24: immediately after a user turn is submitted the user Message is the
\* last of the history, the Round's tool list and streaming buffer are
\* empty, no ConfirmationRequest is active and the stats are cleared.
C24_SubmitResetsRound ==
    [][last'.op = "sendUserMessage" =>
          /\ Len(messages') = Len(messages) + 1
          /\ messages'[Len(messages')].role = "user"
          /\ currentRoundTools' = <<>>
          /\ streamingContent' = 0
          /\ ~pendingConfirm'.active
          /\ executionStats' = FALSE]_vars

\* a list of ToolExecutions holds an entry for this tool call
Holds(tools, t) ==
    \E j \in DOMAIN tools : tools[j].id = t.id /\ tools[j].tool_name = t.tool_name

\* the Messages a step has appended to the history
Appended == { m \in DOMAIN messages' : m > Len(messages) }

\* C25: once an unrecoverable error has stopped the Round, no step discards
\* its partial results: the streamed content and every ToolExecution of the
\* Round are, after the step, still in the live Round (its list or its
\* ConfirmationRequest) or in an assistant Message of the history.
C25_ErrorKeepsPartialResults ==
    [][(lastError = "error" /\ ~isLoading) =>
          /\ streamingContent > 0 =>
                \/ streamingContent' >= streamingContent
                \/ \E m \in Appended : /\ messages'[m].role = "assistant"
                                        /\ messages'[m].content = streamingContent
          /\ \A k \in DOMAIN currentRoundTools :
                \/ Holds(currentRoundTools', currentRoundTools[k])
                \/ Holds(pendingConfirm'.tools, currentRoundTools[k])
                \/ \E m \in Appended : Holds(messages'[m].tools, currentRoundTools[k])]_vars

\* C26 (as stated): cancelTask sends a cancel frame when the socket is
\* open, sets loading to false, and leaves the Round's tool list, streamed
\* text and ConfirmationRequest and the history as they were.
C26_CancelKeepsRound ==
    [][last'.op = "cancelTask" =>
          /\ CanSend => last'.sent = "cancel"
          /\ ~isLoading'
          /\ Unalias(currentRoundTools') = Unalias(currentRoundTools)
          /\ streamingContent' = streamingContent
          /\ pendingConfirm' = pendingConfirm
          /\ messages' = messages]_vars

\* C26 (amended): cancelTask sends a cancel frame when the socket is open,
\* sets loading to false and drops the ConfirmationRequest; the Round's tool
\* list (with the statuses its entries had), its streamed text and the
\* history are as they were.
C26_CancelDropsOnlyConfirm ==
    [][last'.op = "cancelTask" =>
          /\ last'.sent = (IF CanSend THEN "cancel" ELSE "none")
          /\ ~isLoading'
          /\ Unalias(currentRoundTools') = Unalias(currentRoundTools)
          /\ streamingContent' = streamingContent
          /\ ~pendingConfirm'.active
          /\ messages' = messages]_vars

\* a Round with text and a proposed action was cancelled while it waited
\* for the decision
C26_Witness ==
    /\ last.op = "cancelTask" /\ last.sent = "cancel"
    /\ ~isLoading
    /\ streamingContent > 0
    /\ \E k \in DOMAIN currentRoundTools :
          currentRoundTools[k].requires_confirmation /\ currentRoundTools[k].status = "pending"
    /\ ~pendingConfirm.active

\* the tools view of a Message shows this action with the status that the
\* actions view shows
SameInTools(m, a) ==
    \E k \in DOMAIN m.tools : /\ m.tools[k].tool_name = a.tool_name
                              /\ m.tools[k].params = a.params
                              /\ m.tools[k].status = a.status

\* C27: in every Message reconstructed from persisted records the tools view
\* and the actions view agree, also after later status updates: each action
\* of the actions view has an entry in the tools view with the same status.
\* (The claim asks for the same id and requires_confirmation = true as well;
\* the reconstructed tools carry neither.)
C27_LoadedViewsAgree ==
    \A n \in DOMAIN messages :
        ~messages[n].shared =>
            \A i \in DOMAIN messages[n].actions : SameInTools(messages[n], messages[n].actions[i])

\* C28: a Round adds at most one assistant Message to the history: no two
\* assistant Messages follow each other without a user Message between
\* them.
C28_OneMessagePerRound ==
    \A n \in DOMAIN messages :
        (n > 1 /\ messages[n].role = "assistant") => messages[n - 1].role = "user"

\* the close event of socket s, which disconnect() had closed, is handled in
\* this step
LateCloseOf(s) ==
    /\ last'.op = "onclose"
    /\ sock[s] = "closing"
    /\ sock'[s] = "closed"

\* C29: the events of a superseded socket never alter the state of the
\* current connection: while the manager references a socket, the late close
\* event of a socket that disconnect() closed earlier leaves the reference,
\* connectionStatus and the reconnect timer as they are.
C29_SupersededSocketIsInert ==
    [][\A s \in Sockets :
          (ws # 0 /\ s # ws /\ LateCloseOf(s)) =>
              /\ ws' = ws
              /\ connectionStatus' = connectionStatus
              /\ reconnectTimer' = reconnectTimer]_vars

\* a frame of the turn the client waits for can still arrive
TurnAlive == \E s \in Sockets : FrameOk(s)

\* C30: the client never waits forever. Only the 'done' and 'error' frames
\* of the turn set loading to false again, so the wait can end only while
\* such a frame can still arrive: whenever loading is true, the turn is
\* running on a socket that can deliver its frames (after a close, or when
\* the frame could not be sent, loading is false).
C30_LoadingCanEnd == isLoading => TurnAlive

====
